---- MODULE Spec2Model ----
(***************************************************************************)
(* Derived Analytics & Conversational Session Engine.                      *)
(*                                                                         *)
(* Two React pages are modelled:                                           *)
(*   - the chat page (ChatCenter): the persisted chat collection, its      *)
(*     store operations, sendChatMessage and streamTextFromResponse;       *)
(*   - the dashboard page (EnhancedDashboardPage): expenses, budgets,      *)
(*     filters, the derived aggregates and the financial health score.     *)
(*                                                                         *)
(* Text is a sequence of tokens (each token a run of characters), so that  *)
(* concatenation, trimming and line splitting are computed as the code     *)
(* computes them.  Identifiers produced by GEN_ID() are fresh integers.    *)
(***************************************************************************)
EXTENDS Integers, Sequences, FiniteSets, TLC

\* ------------------------------------------------------------------ bounds
MaxOps == 2
MaxSends == 1
MaxChunks == 2

\* --------------------------------------------------------------- constants
\* the null of activeChatId (identifiers are positive)
Null == 0
NL == "\n"
SP == " "

DEFAULT_SYSTEM_PROMPT == <<"You are a helpful personal finance assistant.">>
THINKING == <<"(hourglass) Assistant is thinking...">>
WARN == <<"(warning) ">>
NETWORK_ERROR == <<"Network error: ">>

\* ------------------------------------------------------------ text helpers
IsSpace(tok) == tok \in {SP, NL}

RECURSIVE TrimStart(_)
TrimStart(t) ==
  IF t = <<>> THEN <<>>
  ELSE IF IsSpace(Head(t)) THEN TrimStart(Tail(t)) ELSE t

RECURSIVE TrimEnd(_)
TrimEnd(t) ==
  IF t = <<>> THEN <<>>
  ELSE IF IsSpace(t[Len(t)]) THEN TrimEnd(SubSeq(t, 1, Len(t) - 1)) ELSE t

\* String.prototype.trim
Trim(t) == TrimEnd(TrimStart(t))

\* { ...m, ...patch }
Spread(m, patch) ==
  [k \in DOMAIN m \cup DOMAIN patch |-> IF k \in DOMAIN patch THEN patch[k] ELSE m[k]]

VARIABLES
  pc,            \* "boot" before ChatCenter mounts, "ready" after
  chats,         \* useState<Chat[]>
  activeChatId,  \* useState<string | null>
  storage,       \* localStorage item STORAGE_CHATS
  storageOk,     \* whether localStorage.setItem succeeds (quota / disabled)
  systemPrompt,  \* useState<string> (settings)
  streamEnabled, \* useState<boolean> (settings)
  sending,       \* useState<boolean>
  sends,         \* sendChatMessage activations, in call order
  handoffs,      \* pending setTimeout hand-offs (create chat, then send)
  nextId,        \* source of fresh GEN_ID() values
  used           \* number of user operations performed that count against MaxOps

chatVars == <<pc, chats, activeChatId, storage, storageOk, systemPrompt,
              streamEnabled, sending, sends, handoffs, nextId, used>>

\* State of the dashboard page (EnhancedDashboardPage)
VARIABLES
  dpc,             \* load effect: "fetching" until GET /api/expenses settles
  loading,         \* useState(true)
  expenses,        \* useState<Expense[]>
  budgets,         \* useState<Budget[]>
  financialGoals,  \* useState<FinancialGoal[]>
  financialHealth, \* useState<FinancialHealthScore>
  search,          \* useState("")
  catFilter,       \* useState("All")
  monthFilter,     \* useState(current month)
  posts,           \* addQuickExpense activations awaiting POST /api/expenses
  timers,          \* pending setTimeout(calculateFinancialHealth, 100), in firing order
  nextExpenseId,   \* source of fresh generateId() values
  dashUsed         \* number of user operations performed that count against MaxDashOps

dashVars == <<dpc, loading, expenses, budgets, financialGoals, financialHealth, search,
              catFilter, monthFilter, posts, timers, nextExpenseId, dashUsed>>

\* ------------------------------------------------------------ chat records
Msg(id, role, content) == [id |-> id, role |-> role, content |-> content, ts |-> id]

\* createSeedChats(): ids are drawn in source order, starting at `base`
createSeedChats(base) ==
  << [id |-> base, title |-> "Monthly expenses analysis", createdAt |-> base,
      messages |-> << Msg(base + 1, "system", DEFAULT_SYSTEM_PROMPT),
                      Msg(base + 2, "user", <<"I spent 12000 on Food ...">>),
                      Msg(base + 3, "assistant", <<"Summary: You spent most on Food ...">>) >>],
     [id |-> base + 4, title |-> "SIP vs RD advice", createdAt |-> base + 4,
      messages |-> << Msg(base + 5, "system", DEFAULT_SYSTEM_PROMPT),
                      Msg(base + 6, "user", <<"Should I start a SIP ...">>),
                      Msg(base + 7, "assistant", <<"If you're risk-averse ...">>) >>] >>

SeedIds == 8

\* ----------------------------------------------------------- localStorage
\* An item is absent, or text that JSON.parse rejects, or text that parses
\* to a JSON value (an array of chats, or something that is not an array).
NoItem == [kind |-> "absent"]
Unparsable == [kind |-> "text", parses |-> FALSE]
JsonText(isArray, value) ==
  [kind |-> "text", parses |-> TRUE, isArray |-> isArray, value |-> value]

\* JSON.stringify of one object: every own property is written
\* (no property of a Chat or a Message is ever set to undefined)
JSONValueWithoutPinned(obj) == [k \in DOMAIN obj \ {"pinned"} |-> obj[k]]
JSONValue(obj) == [k \in DOMAIN obj |-> obj[k]]

JSONStringify(cs) ==
  JsonText(TRUE,
    [i \in 1..Len(cs) |->
       [JSONValue(cs[i]) EXCEPT !.messages =
          [j \in 1..Len(cs[i].messages) |-> JSONValue(cs[i].messages[j])]]])

loadChatsFromStorage(item) ==
  IF item.kind = "absent" THEN <<>>
  ELSE IF ~item.parses THEN <<>>
  ELSE IF ~item.isArray THEN <<>>
  ELSE item.value

\* saveChatsToStorage: the write is attempted, a throw is swallowed
saveChatsToStorage(item, cs, ok) == IF ok THEN JSONStringify(cs) ELSE item

\* the initializer without its fallback to the seeds
InitialChatsWithoutSeeds(item, base) == loadChatsFromStorage(item)

\* useState initializers of ChatCenter, in declaration order
InitialChats(item, base) ==
  LET loaded == loadChatsFromStorage(item)
  IN IF Len(loaded) > 0 THEN loaded ELSE createSeedChats(base)

StorageAfterInitialChats(item, base, ok) ==
  IF Len(loadChatsFromStorage(item)) > 0 THEN item
  ELSE saveChatsToStorage(item, createSeedChats(base), ok)

InitialActiveChatId(item) ==
  LET loaded == loadChatsFromStorage(item)
  IN IF Len(loaded) > 0 THEN loaded[1].id ELSE Null

\* What an earlier session may have left under STORAGE_CHATS
SavedChats ==
  << [id |-> 101, title |-> "Saved chat", createdAt |-> 101,
      messages |-> << Msg(102, "system", DEFAULT_SYSTEM_PROMPT),
                      Spread(Msg(103, "user", <<"hello">>), [pinned |-> TRUE]) >>] >>

EarlierStorage ==
  { NoItem, Unparsable, JsonText(FALSE, <<>>), JSONStringify(<<>>),
    JSONStringify(SavedChats) }

\* ===================================================== dashboard page
\* Amounts, limits and dates are integers (rupees, day numbers).  Only the
\* Expense fields that the aggregates, filters and the health score read are
\* kept (id, amount, category, date, title).
\* Scores are exact rationals; for the amounts and limits that occur
\* the double arithmetic of the code rounds to the same integers.
MaxDashOps == 3

DEFAULT_CATEGORIES ==
  <<"Food", "Transport", "Shopping", "Bills", "Entertainment", "Health", "Other">>

\* new Date(): the day the page is open; date.startsWith(monthFilter) compares
\* the month a day falls in
Today == 35
MonthOf(date) == date \div 30

NoTitle == <<>>
Expense(id, amount, category, date, title) ==
  [id |-> id, amount |-> amount, category |-> category, date |-> date, title |-> title]

seedExpenses ==
  << Expense(1, 1200, "Food", Today, NoTitle),
     Expense(2, 450, "Transport", Today - 1, NoTitle),
     Expense(3, 2800, "Bills", Today - 3, NoTitle),
     Expense(4, 700, "Entertainment", Today - 5, NoTitle),
     Expense(5, 3500, "Shopping", Today - 7, NoTitle),
     Expense(6, 650, "Food", Today - 10, NoTitle) >>

InitialBudgets ==
  << [category |-> "Food", limit |-> 8000, priority |-> "high"],
     [category |-> "Transport", limit |-> 3000, priority |-> "medium"],
     [category |-> "Shopping", limit |-> 6000, priority |-> "low"] >>

InitialGoals ==
  << [id |-> 100, title |-> "Emergency Fund", target |-> 100000, current |-> 25000,
      category |-> "Savings", priority |-> 1] >>

InitialHealth ==
  [overall |-> 75, spending |-> 70, saving |-> 80, budgeting |-> 75, planning |-> 75]

FirstGeneratedId == 101

\* State after construction of EnhancedDashboardPage (the load effect has
\* started its GET)
DashConstructedWith(goals) ==
  /\ dpc = "fetching"
  /\ loading = TRUE
  /\ expenses = <<>>
  /\ budgets = InitialBudgets
  /\ financialGoals = goals
  /\ financialHealth = InitialHealth
  /\ search = <<>>
  /\ catFilter = "All"
  /\ monthFilter = MonthOf(Today)
  /\ posts = <<>>
  /\ timers = <<>>
  /\ nextExpenseId = FirstGeneratedId
  /\ dashUsed = 0

DashConstructed == DashConstructedWith(InitialGoals)


\* ------------------------------------------------------- chat page state
ChatInit ==
  /\ pc = "boot"
  /\ chats = <<>>
  /\ activeChatId = Null
  /\ storage \in EarlierStorage
  /\ storageOk \in BOOLEAN
  /\ ~storageOk => storage \in {NoItem, JSONStringify(SavedChats)}
  /\ systemPrompt = DEFAULT_SYSTEM_PROMPT
  /\ streamEnabled = TRUE
  /\ sending = FALSE
  /\ sends = <<>>
  /\ handoffs = <<>>
  /\ nextId = 1
  /\ used = 0

\* First render of ChatCenter plus the mount run of the persist effect
Mount ==
  /\ pc = "boot"
  /\ pc' = "ready"
  /\ chats' = InitialChats(storage, nextId)
  /\ activeChatId' = InitialActiveChatId(StorageAfterInitialChats(storage, nextId, storageOk))
  /\ storage' = saveChatsToStorage(StorageAfterInitialChats(storage, nextId, storageOk),
                                   chats', storageOk)
  /\ nextId' = IF Len(loadChatsFromStorage(storage)) > 0 THEN nextId ELSE nextId + SeedIds
  /\ UNCHANGED <<handoffs, storageOk, dashVars, systemPrompt, streamEnabled, sending, sends, used>>

\* ------------------------------------------------------- chat store helpers
ChatIds(cs) == {cs[i].id : i \in 1..Len(cs)}
MsgIds(ms) == {ms[i].id : i \in 1..Len(ms)}
FindChat(cs, id) == CHOOSE c \in {cs[i] : i \in 1..Len(cs)} : c.id = id
HasChat(cs, id) == id \in ChatIds(cs)

\* chats.find((c) => c.id === activeChatId) ?? null
HasActiveChat == HasChat(chats, activeChatId)
getActiveChat == FindChat(chats, activeChatId)

\* the persist effect: useEffect(() => saveChatsToStorage(chats), [chats])
PersistedOnlyWhenEmpty(cs) == IF storage.kind = "absent" THEN saveChatsToStorage(storage, cs, storageOk) ELSE storage
Persisted(cs) == saveChatsToStorage(storage, cs, storageOk)


\* ---------------------------------------------------- chat store operations
setActiveChatInPlace(id, prev) == prev
setActiveChatChats(id, prev) ==
  IF ~HasChat(prev, id) THEN prev
  ELSE <<FindChat(prev, id)>> \o SelectSeq(prev, LAMBDA p : p.id # id)

setActiveChat(id) ==
  /\ pc = "ready"
  /\ activeChatId' = id
  /\ chats' = setActiveChatChats(id, chats)
  /\ storage' = Persisted(chats')
  /\ UNCHANGED <<handoffs, pc, storageOk, dashVars, systemPrompt, streamEnabled, sending, sends, nextId, used>>

NewChat(id, title, prompt) ==
  [id |-> id, title |-> title, createdAt |-> id,
   messages |-> << Msg(id + 1, "system", prompt) >>]

createNewChatAtEnd(title, prev) == Append(prev, NewChat(nextId, title, systemPrompt))
createNewChatChats(title, prev) == <<NewChat(nextId, title, systemPrompt)>> \o prev

createNewChatEffect(title) ==
  /\ used < MaxOps
  /\ chats' = createNewChatChats(title, chats)
  /\ activeChatId' = nextId
  /\ nextId' = nextId + 2
  /\ used' = used + 1
  /\ storage' = Persisted(chats')

createNewChat(title) ==
  /\ pc = "ready"
  /\ createNewChatEffect(title)
  /\ UNCHANGED <<handoffs, pc, storageOk, dashVars, systemPrompt, streamEnabled, sending, sends>>

deleteChatChats(id, prev) == SelectSeq(prev, LAMBDA c : c.id # id)

deleteChatActiveFirstOfAll(id, active, cs) ==
  IF active = id THEN (IF Len(cs) > 0 THEN cs[1].id ELSE Null) ELSE active
deleteChatActive(id, active, cs) ==
  IF active = id
  THEN LET remaining == SelectSeq(cs, LAMBDA c : c.id # id)
       IN IF Len(remaining) > 0 THEN remaining[1].id ELSE Null
  ELSE active

deleteChat(id, confirmed) ==
  /\ pc = "ready"
  /\ IF ~confirmed
     THEN UNCHANGED <<chats, activeChatId, storage>>
     ELSE /\ chats' = deleteChatChats(id, chats)
          /\ activeChatId' = deleteChatActive(id, activeChatId, chats)
          /\ storage' = Persisted(chats')
  /\ UNCHANGED <<handoffs, pc, storageOk, dashVars, systemPrompt, streamEnabled, sending, sends, nextId, used>>

renameChat(id, title) ==
  /\ pc = "ready"
  /\ used < MaxOps
  /\ chats' = [i \in 1..Len(chats) |->
                 IF chats[i].id = id THEN [chats[i] EXCEPT !.title = title] ELSE chats[i]]
  /\ used' = used + 1
  /\ storage' = Persisted(chats')
  /\ UNCHANGED <<handoffs, pc, activeChatId, storageOk, dashVars, systemPrompt, streamEnabled, sending, sends, nextId>>

\* ------------------------------------------------------------ message CRUD
addMessageToChatChats(chatId, m, prev) ==
  [i \in 1..Len(prev) |->
     IF prev[i].id = chatId
     THEN [prev[i] EXCEPT !.messages = Append(@, m)]
     ELSE prev[i]]

\* a patch that adds the message when the chat no longer holds it
updateMessageInChatUpsert(chatId, messageId, patch, prev) ==
  [i \in 1..Len(prev) |->
     IF prev[i].id = chatId
     THEN IF messageId \in {prev[i].messages[j].id : j \in 1..Len(prev[i].messages)}
          THEN [prev[i] EXCEPT !.messages =
                  [j \in 1..Len(@) |-> IF @[j].id = messageId THEN Spread(@[j], patch) ELSE @[j]]]
          ELSE [prev[i] EXCEPT !.messages =
                  Append(@, Spread([id |-> messageId, role |-> "assistant", ts |-> messageId],
                                   patch))]
     ELSE prev[i]]

updateMessageInChatChats(chatId, messageId, patch, prev) ==
  [i \in 1..Len(prev) |->
     IF prev[i].id = chatId
     THEN [prev[i] EXCEPT !.messages =
             [j \in 1..Len(@) |-> IF @[j].id = messageId THEN Spread(@[j], patch) ELSE @[j]]]
     ELSE prev[i]]

deleteMessageFromChatChats(chatId, messageId, prev) ==
  [i \in 1..Len(prev) |->
     IF prev[i].id = chatId
     THEN [prev[i] EXCEPT !.messages = SelectSeq(@, LAMBDA m : m.id # messageId)]
     ELSE prev[i]]

\* the Pin / Unpin button of a message of the active chat
TogglePin(messageId) ==
  /\ pc = "ready"
  /\ used < MaxOps
  /\ HasActiveChat
  /\ \E j \in 1..Len(getActiveChat.messages) :
       LET m == getActiveChat.messages[j]
       IN /\ m.id = messageId
          /\ chats' = updateMessageInChatChats(activeChatId, messageId,
                        [pinned |-> IF "pinned" \in DOMAIN m THEN ~m.pinned ELSE TRUE], chats)
  /\ used' = used + 1
  /\ storage' = Persisted(chats')
  /\ UNCHANGED <<handoffs, pc, activeChatId, storageOk, dashVars, systemPrompt, streamEnabled, sending, sends, nextId>>

\* the Delete button of a message of the active chat
deleteMessageFromChat(messageId) ==
  /\ pc = "ready"
  /\ used < MaxOps
  /\ HasActiveChat
  /\ messageId \in MsgIds(getActiveChat.messages)
  /\ chats' = deleteMessageFromChatChats(activeChatId, messageId, chats)
  /\ used' = used + 1
  /\ storage' = Persisted(chats')
  /\ UNCHANGED <<handoffs, pc, activeChatId, storageOk, dashVars, systemPrompt, streamEnabled, sending, sends, nextId>>

\* the "Reset to Demo" button
ResetToDemo(confirmed) ==
  /\ pc = "ready"
  /\ used < MaxOps
  /\ used' = used + 1
  /\ IF ~confirmed
     THEN UNCHANGED <<chats, activeChatId, storage, nextId>>
     ELSE /\ chats' = createSeedChats(nextId)
          /\ activeChatId' = chats'[1].id
          /\ nextId' = nextId + SeedIds
          /\ storage' = Persisted(chats')
  /\ UNCHANGED <<handoffs, pc, storageOk, dashVars, systemPrompt, streamEnabled, sending, sends>>

\* settings panel
setSystemPrompt(p) ==
  /\ pc = "ready"
  /\ used < MaxOps
  /\ used' = used + 1
  /\ systemPrompt' = p
  /\ UNCHANGED <<handoffs, pc, chats, activeChatId, storage, storageOk, dashVars, streamEnabled, sending, sends, nextId>>

setStreamEnabled ==
  /\ pc = "ready"
  /\ used < MaxOps
  /\ used' = used + 1
  /\ streamEnabled' = ~streamEnabled
  /\ UNCHANGED <<handoffs, pc, chats, activeChatId, storage, storageOk, dashVars, systemPrompt, sending, sends, nextId>>

\* ---------------------------------------------------- streaming: JSON lines
\* A line of a streamed body is JSON when, trimmed, it is one scalar or one
\* object of one or two fields.  Field tokens name the path that the code
\* reads; value tokens are a JSON string, null, or a non-string scalar.
KeyTokens == {"reply:", "content:", "message.content:", "response:", "done:"}
StringTokens == {"'hi'", "'yo'"}
ValueTokens == StringTokens \cup {"null", "true"}
StringOf(tok) == IF tok = "'hi'" THEN <<"hi">> ELSE <<"yo">>

ParseFailed == [ok |-> FALSE]
Parsed(fields) == [ok |-> TRUE, fields |-> fields]

\* JSON.parse(line)
JSONParseLine(line) ==
  LET t == Trim(line)
  IN IF Len(t) = 1 /\ t[1] \in ValueTokens THEN Parsed(<<>>)
     ELSE IF Len(t) = 4 /\ t[1] = "{" /\ t[2] \in KeyTokens /\ t[3] \in ValueTokens /\ t[4] = "}"
       THEN Parsed(<< <<t[2], t[3]>> >>)
     ELSE IF /\ Len(t) = 7 /\ t[1] = "{" /\ t[2] \in KeyTokens /\ t[3] \in ValueTokens
             /\ t[4] = "," /\ t[5] \in KeyTokens /\ t[6] \in ValueTokens /\ t[7] = "}"
             /\ t[2] # t[5]
       THEN Parsed(<< <<t[2], t[3]>>, <<t[5], t[6]>> >>)
     ELSE ParseFailed

\* parsed?.key : the value token, or "undefined"
Field(fields, key) ==
  IF \E i \in 1..Len(fields) : fields[i][1] = key
  THEN (CHOOSE f \in {fields[i] : i \in 1..Len(fields)} : f[1] = key)[2]
  ELSE "undefined"

IsNullish(v) == v \in {"undefined", "null"}

\* a ?? b ?? c ?? d over the given key order
RECURSIVE Coalesce(_, _)
Coalesce(fields, keys) ==
  IF Len(keys) = 1 THEN Field(fields, keys[1])
  ELSE IF ~IsNullish(Field(fields, keys[1])) THEN Field(fields, keys[1])
  ELSE Coalesce(fields, Tail(keys))

StreamKeys == <<"reply:", "content:", "message.content:", "response:">>

\* buffer.split("\n"): the pieces between newline tokens (at least one piece)
RECURSIVE SplitLines(_, _)
SplitLines(t, cur) ==
  IF t = <<>> THEN <<cur>>
  ELSE IF Head(t) = NL THEN <<cur>> \o SplitLines(Tail(t), <<>>)
  ELSE SplitLines(Tail(t), Append(cur, Head(t)))

\* the texts that the `for (const line of lines)` loop passes to onChunk
RECURSIVE LineCandidates(_)
LineCandidates(lines) ==
  IF lines = <<>> THEN <<>>
  ELSE LET line == Head(lines)
           parsed == JSONParseLine(line)
           candidate == Coalesce(parsed.fields, StreamKeys)
       IN (IF Trim(line) = <<>> THEN <<>>
           ELSE IF ~parsed.ok THEN <<>>
           ELSE IF candidate \in StringTokens THEN <<StringOf(candidate)>>
           ELSE <<>>)
          \o LineCandidates(Tail(lines))

\* the read loop given up at a completed line that yields no text
OnChunkCallsUntilBadLine(buffer, chunk) ==
  LET lines == SplitLines(buffer \o chunk, <<>>)
      completed == SubSeq(lines, 1, Len(lines) - 1)
  IN IF \E k \in 1..Len(completed) :
          Trim(completed[k]) # <<>> /\ LineCandidates(<<completed[k]>>) = <<>>
     THEN <<>>
     ELSE <<chunk>> \o LineCandidates(completed)

\* One iteration of the read loop of streamTextFromResponse for a chunk:
\* the arguments of the onChunk calls it makes, in order, and the new buffer.
OnChunkCalls(buffer, chunk) ==
  LET lines == SplitLines(buffer \o chunk, <<>>)
  IN <<chunk>> \o LineCandidates(SubSeq(lines, 1, Len(lines) - 1))

BufferAfter(buffer, chunk) ==
  LET lines == SplitLines(buffer \o chunk, <<>>)
  IN lines[Len(lines)]

\* the concatenation of a sequence of texts
RECURSIVE Concat(_)
Concat(texts) == IF texts = <<>> THEN <<>> ELSE Head(texts) \o Concat(Tail(texts))

\* the callback with `accumulated = chunk + accumulated`
AccumulateAtFront(accumulated, calls) == Concat(calls) \o accumulated

\* the onChunk callback of sendChatMessage: accumulated += chunk, per call
AccumulateLastOnly(accumulated, calls) == Concat(calls)
Accumulate(accumulated, calls) == accumulated \o Concat(calls)

\* ------------------------------------------------------ the fetch Response
\* A body is JSON text (an object of text fields) or text that is not JSON.
JsonBody(obj) == [json |-> TRUE, obj |-> obj]
TextBody(text) == [json |-> FALSE, text |-> text]

ErrorBodies ==
  { JsonBody([error |-> <<"boom">>]),
    JsonBody([message |-> <<"bad request">>]),
    JsonBody([error |-> <<"boom">>, message |-> <<"bad request">>]),
    JsonBody([reply |-> <<"Failed to connect to Ollama.">>]),
    TextBody(<<"Internal Server Error">>) }

OkBodies ==
  { JsonBody([reply |-> <<"Hello">>]),
    JsonBody([response |-> <<"Hi">>]),
    TextBody(<<"plain text">>) }

FETCH_FAILED == <<"Failed to fetch">>
STREAM_FAILED == <<"network error">>
NOT_JSON == <<"Unexpected token">>

\* await res.json(): the body is consumed; the promise rejects unless it is JSON
ResJson(body) == [threw |-> ~body.json, bodyUsed |-> TRUE]

\* await res.text(): rejects when the body was already consumed
ResText(body, bodyUsed) == [threw |-> bodyUsed]

\* j?.key ?? ... : the field's text, or "undefined"
Has(obj, key) == key \in DOMAIN obj

BodyKeyOrder == <<"error", "message", "reply", "response">>

RECURSIVE StringifyFields(_, _)
StringifyFields(obj, keys) ==
  IF keys = <<>> THEN <<>>
  ELSE (IF Has(obj, Head(keys)) THEN <<Head(keys), ":">> \o obj[Head(keys)] ELSE <<>>)
       \o StringifyFields(obj, Tail(keys))

\* JSON.stringify(j) of a response object
JSONStringifyBody(obj) == <<"{">> \o StringifyFields(obj, BodyKeyOrder) \o <<"}">>

StatusText(status) == <<"Error ", status>>

\* lines 604-612: the text shown for a non-success status
ErrorTextMessageFirst(status, body) ==
  IF ~ResJson(body).threw
  THEN IF Has(body.obj, "message") THEN body.obj.message
       ELSE IF Has(body.obj, "error") THEN body.obj.error
       ELSE JSONStringifyBody(body.obj)
  ELSE StatusText(status)
ErrorText(status, body) ==
  IF ~ResJson(body).threw
  THEN IF Has(body.obj, "error") THEN body.obj.error
       ELSE IF Has(body.obj, "message") THEN body.obj.message
       ELSE JSONStringifyBody(body.obj)
  ELSE IF ~ResText(body, ResJson(body).bodyUsed).threw THEN body.text
  ELSE StatusText(status)

\* lines 636-638: the reply of a response that is not streamed
ReplyText(obj) ==
  IF Has(obj, "reply") THEN obj.reply
  ELSE IF Has(obj, "response") THEN obj.response
  ELSE <<"[object Object]">>

\* ------------------------------------------------------- sendChatMessage
NewSend(chatId, userId, asstId, text, stream) ==
  [chatId |-> chatId, user |-> userId, asst |-> asstId, text |-> text,
   stage |-> "fetch", stream |-> stream, outcome |-> [kind |-> "pending"],
   accumulated |-> <<>>, buffer |-> <<>>, chunks |-> <<>>, calls |-> <<>>,
   final |-> THINKING]

\* the validation with `!userText` in place of `!userText.trim()`
sendChatMessageUntrimmed(chatId, userText, stream) ==
  IF userText = <<>>
  THEN UNCHANGED <<chats, storage, sending, sends, nextId>>
  ELSE /\ chats' = addMessageToChatChats(chatId, Msg(nextId + 1, "assistant", THINKING),
                     addMessageToChatChats(chatId, Msg(nextId, "user", Trim(userText)), chats))
       /\ sending' = TRUE
       /\ sends' = Append(sends, NewSend(chatId, nextId, nextId + 1, Trim(userText), stream))
       /\ nextId' = nextId + 2
       /\ storage' = Persisted(chats')

\* lines 577-585: validation, the two appends, setSending(true)
sendChatMessage(chatId, userText, stream) ==
  IF Trim(userText) = <<>>
  THEN UNCHANGED <<chats, storage, sending, sends, nextId>>
  ELSE /\ chats' = addMessageToChatChats(chatId, Msg(nextId + 1, "assistant", THINKING),
                     addMessageToChatChats(chatId, Msg(nextId, "user", Trim(userText)), chats))
       /\ sending' = TRUE
       /\ sends' = Append(sends, NewSend(chatId, nextId, nextId + 1, Trim(userText), stream))
       /\ nextId' = nextId + 2
       /\ storage' = Persisted(chats')

\* updateMessageInChat(chatId, assistantMsg.id, { content }) by activation i
PatchContent(i, content) ==
  /\ chats' = updateMessageInChatChats(sends[i].chatId, sends[i].asst, [content |-> content], chats)
  /\ storage' = Persisted(chats')

\* the end of an activation without the setSending(false) of `finally`
FinishStillSending(i, outcome, content) ==
  /\ PatchContent(i, content)
  /\ sends' = [sends EXCEPT ![i].stage = "done", ![i].outcome = outcome, ![i].final = content]
  /\ sending' = sending

Finish(i, outcome, content) ==
  /\ PatchContent(i, content)
  /\ sends' = [sends EXCEPT ![i].stage = "done", ![i].outcome = outcome, ![i].final = content]
  /\ sending' = FALSE

InFlight(i) == i \in 1..Len(sends) /\ pc = "ready"

\* the catch block's content, written with the HTTP branch's bare marker
NetworkErrorTextAsHttp(message) == WARN \o message

\* catch (err): `(warning) Network error: ${String(err?.message ?? err)}`
NetworkErrorText(message) == WARN \o NETWORK_ERROR \o message

\* fetch rejects: catch, then finally
FetchRejects(i) ==
  /\ InFlight(i) /\ sends[i].stage = "fetch"
  /\ Finish(i, [kind |-> "rejected"], NetworkErrorText(FETCH_FAILED))
  /\ UNCHANGED <<handoffs, pc, activeChatId, storageOk, dashVars, systemPrompt, streamEnabled, nextId, used>>

\* !res.ok
RespondNotOk(i, status, body) ==
  /\ InFlight(i) /\ sends[i].stage = "fetch"
  /\ Finish(i, [kind |-> "http", status |-> status, body |-> body],
            WARN \o ErrorText(status, body))
  /\ UNCHANGED <<handoffs, pc, activeChatId, storageOk, dashVars, systemPrompt, streamEnabled, nextId, used>>

\* res.ok, and not (res.body && streamEnabled): await res.json()
RespondOkJson(i, hasBody, body) ==
  /\ InFlight(i) /\ sends[i].stage = "fetch"
  /\ ~(hasBody /\ sends[i].stream)
  /\ IF hasBody /\ ~ResJson(body).threw
     THEN Finish(i, [kind |-> "json", body |-> body], ReplyText(body.obj))
     ELSE Finish(i, [kind |-> "rejected"], NetworkErrorText(NOT_JSON))
  /\ UNCHANGED <<handoffs, pc, activeChatId, storageOk, dashVars, systemPrompt, streamEnabled, nextId, used>>

\* res.ok, res.body && streamEnabled: streamTextFromResponse starts reading
RespondOkStream(i) ==
  /\ InFlight(i) /\ sends[i].stage = "fetch"
  /\ sends[i].stream
  /\ sends' = [sends EXCEPT ![i].stage = "stream"]
  /\ UNCHANGED <<handoffs, pc, chats, activeChatId, storage, storageOk, dashVars, systemPrompt, streamEnabled,
                 sending, nextId, used>>

\* reader.read() resolves with a chunk: onChunk for the raw text and for each
\* extracted candidate; every onChunk call patches the placeholder
StreamChunk(i, chunk) ==
  /\ InFlight(i) /\ sends[i].stage = "stream"
  /\ LET calls == OnChunkCalls(sends[i].buffer, chunk)
         acc == Accumulate(sends[i].accumulated, calls)
     IN /\ PatchContent(i, acc)
        /\ sends' = [sends EXCEPT ![i].accumulated = acc,
                                  ![i].buffer = BufferAfter(sends[i].buffer, chunk),
                                  ![i].chunks = Append(@, chunk),
                                  ![i].calls = @ \o calls,
                                  ![i].final = acc]
  /\ UNCHANGED <<handoffs, pc, activeChatId, storageOk, dashVars, systemPrompt, streamEnabled, sending, nextId, used>>

\* reader.read() resolves with done: onComplete, then finally
StreamEnd(i) ==
  /\ InFlight(i) /\ sends[i].stage = "stream"
  /\ sends' = [sends EXCEPT ![i].stage = "done", ![i].outcome = [kind |-> "complete"]]
  /\ sending' = FALSE
  /\ UNCHANGED <<handoffs, pc, chats, activeChatId, storage, storageOk, dashVars, systemPrompt, streamEnabled,
                 nextId, used>>

\* reader.read() rejects: catch, then finally
StreamFails(i) ==
  /\ InFlight(i) /\ sends[i].stage = "stream"
  /\ Finish(i, [kind |-> "rejected"], NetworkErrorText(STREAM_FAILED))
  /\ UNCHANGED <<handoffs, pc, activeChatId, storageOk, dashVars, systemPrompt, streamEnabled, nextId, used>>

\* ------------------------------------------------------- UI entry points
QUICK_PROMPTS == { <<"What's my total spending this month?">> }
ComposerTexts == { <<>>, <<SP>>, <<"hi", SP>> }

\* the body shared by quickSend, handleComposerKeyDown and the Send button;
\* a pending setTimeout callback holds the text and the streamEnabled of its
\* render (`chat` notes the chat created just before; the callback does not
\* hold it and reads loadChatsFromStorage()[0] instead)
SendOrHandOff(title, text) ==
  /\ pc = "ready"
  /\ IF activeChatId = Null
     THEN /\ createNewChatEffect(title)
          /\ handoffs' = Append(handoffs, [text |-> text, stream |-> streamEnabled,
                                           chat |-> nextId])
          /\ UNCHANGED <<sending, sends>>
     ELSE /\ sendChatMessage(activeChatId, text, streamEnabled)
          /\ UNCHANGED <<activeChatId, used, handoffs>>
  /\ UNCHANGED <<pc, storageOk, dashVars, systemPrompt, streamEnabled>>

quickSend(prompt) == SendOrHandOff("Quick Chat", prompt)

\* createNewChat() without a title: `New Chat ${new Date().toLocaleString()}`
handleComposerKeyDown(composerText) == SendOrHandOff("New Chat <now>", composerText)

\* disabled={sending || !composerText.trim()}
SendButton(composerText) ==
  /\ ~(sending \/ Trim(composerText) = <<>>)
  /\ SendOrHandOff("New Chat <now>", composerText)

\* the setTimeout callback: loadChatsFromStorage()[0]?.id, then sendChatMessage
HandOffFires(k) ==
  /\ pc = "ready"
  /\ k \in 1..Len(handoffs)
  /\ handoffs' = SubSeq(handoffs, 1, k - 1) \o SubSeq(handoffs, k + 1, Len(handoffs))
  /\ LET loaded == loadChatsFromStorage(storage)
     IN IF Len(loaded) > 0
        THEN sendChatMessage(loaded[1].id, handoffs[k].text, handoffs[k].stream)
        ELSE UNCHANGED <<chats, storage, sending, sends, nextId>>
  /\ UNCHANGED <<pc, activeChatId, storageOk, dashVars, systemPrompt, streamEnabled, used>>

\* ------------------------------------------------------------ chat page

ChatNext ==
  \/ Mount
  \/ \E id \in ChatIds(chats) : setActiveChat(id)
  \/ \E t \in {"New Chat"} : createNewChat(t)
  \/ \E id \in ChatIds(chats), confirmed \in BOOLEAN : deleteChat(id, confirmed)
  \/ \E id \in ChatIds(chats), t \in {"Renamed"} : renameChat(id, t)
  \/ \E id \in 1..nextId : TogglePin(id)
  \/ \E id \in 1..nextId : deleteMessageFromChat(id)
  \/ \E confirmed \in BOOLEAN : ResetToDemo(confirmed)
  \/ setSystemPrompt(<<"Answer in one line.">>)
  \/ setStreamEnabled
  \/ \E q \in QUICK_PROMPTS : Len(sends) + Len(handoffs) < MaxSends /\ quickSend(q)
  \/ \E t \in ComposerTexts :
       Len(sends) + Len(handoffs) < MaxSends /\ handleComposerKeyDown(t)
  \/ \E t \in ComposerTexts : Len(sends) + Len(handoffs) < MaxSends /\ SendButton(t)
  \/ \E k \in 1..Len(handoffs) : HandOffFires(k)
  \/ \E i \in 1..Len(sends) : FetchRejects(i)
  \/ \E i \in 1..Len(sends), st \in {500}, b \in ErrorBodies : RespondNotOk(i, st, b)
  \/ \E i \in 1..Len(sends), hb \in BOOLEAN, b \in OkBodies : RespondOkJson(i, hb, b)
  \/ \E i \in 1..Len(sends) : RespondOkStream(i)
  \/ \E i \in 1..Len(sends), c \in { <<"{", "reply:", "'hi'", "}", NL>> } :
       Len(sends[i].chunks) < MaxChunks /\ StreamChunk(i, c)
  \/ \E i \in 1..Len(sends) : StreamEnd(i)
  \/ \E i \in 1..Len(sends) : StreamFails(i)

vars == <<chatVars, dashVars>>

Init == ChatInit /\ DashConstructed
Next == ChatNext
Spec == Init /\ [][Next]_vars

\* ------------------------------------------------ streaming in isolation
\* One send into the seeded store, with every body the alphabet below can
\* deliver in at most MaxStreamChunks chunks.
MaxStreamChunks == 3

StreamAlphabet ==
  { <<"Hel">>, <<"lo wor">>, <<"ld">>, <<NL>>,
    <<"{", "reply:", "'hi'", "}", NL>>,
    <<"{", "reply:", "'hi'">>, <<"}", NL>>,
    <<"{", "done:", "true", "}", NL>>,
    <<"{", "reply:", "null", ",", "response:", "'yo'", "}", NL, "Hel">> }

StreamInit ==
  /\ ChatInit
  /\ storage = NoItem
  /\ storageOk
  /\ DashConstructed

StreamNext ==
  \/ Mount
  \/ \E t \in ComposerTexts : Len(sends) + Len(handoffs) < MaxSends /\ SendButton(t)
  \/ \E i \in 1..Len(sends) : RespondOkStream(i)
  \/ \E i \in 1..Len(sends), c \in StreamAlphabet :
       Len(sends[i].chunks) < MaxStreamChunks /\ StreamChunk(i, c)
  \/ \E i \in 1..Len(sends) : StreamEnd(i)
  \/ \E i \in 1..Len(sends) : StreamFails(i)
  \/ \E id \in 1..nextId : deleteMessageFromChat(id)

StreamSpec == StreamInit /\ [][StreamNext]_vars

\* ------------------------------------------- sends started back to back
\* The three UI send actions against the seeded store, up to MaxRaceSends
\* activations of sendChatMessage, each answered by a stream or a rejection.
MaxRaceSends == 2

RaceNext ==
  \/ Mount
  \/ \E id \in ChatIds(chats) : setActiveChat(id)
  \/ \E q \in QUICK_PROMPTS : Len(sends) + Len(handoffs) < MaxRaceSends /\ quickSend(q)
  \/ \E t \in ComposerTexts :
       Len(sends) + Len(handoffs) < MaxRaceSends /\ handleComposerKeyDown(t)
  \/ \E t \in ComposerTexts : Len(sends) + Len(handoffs) < MaxRaceSends /\ SendButton(t)
  \/ \E i \in 1..Len(sends) : FetchRejects(i)
  \/ \E i \in 1..Len(sends) : RespondOkStream(i)
  \/ \E i \in 1..Len(sends), c \in { <<"Hel">> } :
       Len(sends[i].chunks) < MaxChunks /\ StreamChunk(i, c)
  \/ \E i \in 1..Len(sends) : StreamEnd(i)

RaceSpec == StreamInit /\ [][RaceNext]_vars

\* --------------------------------------- a transport that always settles
\* Every pending fetch is eventually answered or rejected, and every open
\* stream eventually delivers a chunk, ends or fails.
Transport ==
  \E i \in 1..Len(sends) :
    \/ FetchRejects(i)
    \/ \E b \in ErrorBodies : RespondNotOk(i, 500, b)
    \/ \E hb \in BOOLEAN, b \in OkBodies : RespondOkJson(i, hb, b)
    \/ RespondOkStream(i)
    \/ Len(sends[i].chunks) < MaxChunks /\ StreamChunk(i, <<"Hel">>)
    \/ StreamEnd(i)
    \/ StreamFails(i)

SettleNext ==
  \/ Mount
  \/ setStreamEnabled
  \/ \E q \in QUICK_PROMPTS : Len(sends) + Len(handoffs) < MaxRaceSends /\ quickSend(q)
  \/ \E t \in ComposerTexts : Len(sends) + Len(handoffs) < MaxRaceSends /\ SendButton(t)
  \/ Transport

SettleSpec == StreamInit /\ [][SettleNext]_vars /\ WF_vars(Transport)

\* ---------------------------------------------------------- arithmetic
Abs(a) == IF a >= 0 THEN a ELSE 0 - a

RECURSIVE GCD(_, _)
GCD(a, b) == IF b = 0 THEN a ELSE GCD(b, a % b)

\* exact rationals num/den with den > 0, kept in lowest terms
Frac(num, den) ==
  LET g == GCD(Abs(num), den) IN [num |-> num \div g, den |-> den \div g]
FracAdd(x, y) == Frac(x.num * y.den + y.num * x.den, x.den * y.den)

\* Math.round: the nearest integer, ties towards +Infinity
MathRound(x) == (2 * x.num + x.den) \div (2 * x.den)

RECURSIVE SumAmounts(_)
SumAmounts(es) == IF es = <<>> THEN 0 ELSE Head(es).amount + SumAmounts(Tail(es))

RECURSIVE SumLimits(_)
SumLimits(bs) == IF bs = <<>> THEN 0 ELSE Head(bs).limit + SumLimits(Tail(bs))

\* ------------------------------------------------------- health score
spendingScore(es, bs) ==
  LET totalSpent == SumAmounts(es)
      totalBudget == SumLimits(bs)
  IN IF totalBudget > 0
     THEN IF totalSpent <= totalBudget
          THEN Frac(100 * totalBudget - 100 * totalSpent, totalBudget)
          ELSE Frac(0, 1)
     ELSE Frac(50, 1)

\* Math.min(100, (goals[0]?.current / goals[0]?.target) * 100 || 0), for a
\* current that is not negative: no first goal or no target gives NaN, hence
\* the 0 after `||`; 0 / 0 is NaN too; a positive current over a target of 0
\* is Infinity, which `||` keeps and Math.min cuts to 100
savingScore(gs) ==
  IF gs = <<>> THEN Frac(0, 1)
  ELSE IF ~("target" \in DOMAIN gs[1]) THEN Frac(0, 1)
  ELSE IF gs[1].target = 0
       THEN IF gs[1].current > 0 THEN Frac(100, 1) ELSE Frac(0, 1)
       ELSE LET num == IF gs[1].target > 0 THEN 100 * gs[1].current
                       ELSE 0 - 100 * gs[1].current
                den == Abs(gs[1].target)
            IN IF num > 100 * den THEN Frac(100, 1) ELSE Frac(num, den)

budgetingScore(bs) == IF Len(bs) > 0 THEN Frac(80, 1) ELSE Frac(20, 1)
planningScore(gs) == IF Len(gs) > 0 THEN Frac(75, 1) ELSE Frac(25, 1)

MeanOfSubScores(es, bs, gs) ==
  LET sum == FracAdd(FracAdd(spendingScore(es, bs), savingScore(gs)),
                     FracAdd(budgetingScore(bs), planningScore(gs)))
  IN Frac(sum.num, sum.den * 4)

calculateFinancialHealthFromRounded(es, bs, gs) ==
  [overall |-> MathRound(Frac(MathRound(spendingScore(es, bs)) + MathRound(savingScore(gs))
                              + MathRound(budgetingScore(bs)) + MathRound(planningScore(gs)), 4)),
   spending |-> MathRound(spendingScore(es, bs)),
   saving |-> MathRound(savingScore(gs)),
   budgeting |-> MathRound(budgetingScore(bs)),
   planning |-> MathRound(planningScore(gs))]
calculateFinancialHealth(es, bs, gs) ==
  [overall |-> MathRound(MeanOfSubScores(es, bs, gs)),
   spending |-> MathRound(spendingScore(es, bs)),
   saving |-> MathRound(savingScore(gs)),
   budgeting |-> MathRound(budgetingScore(bs)),
   planning |-> MathRound(planningScore(gs))]

\* ------------------------------------------------------ derived data
\* toLowerCase on the tokens that occur
ToLowerCase(tok) ==
  CASE tok = "Food" -> "food"
    [] tok = "Transport" -> "transport"
    [] tok = "Shopping" -> "shopping"
    [] tok = "Bills" -> "bills"
    [] tok = "Entertainment" -> "entertainment"
    [] tok = "Health" -> "health"
    [] tok = "Other" -> "other"
    [] tok = "Pizza" -> "pizza"
    [] tok = "Uber" -> "uber"
    [] tok = "Bus" -> "bus"
    [] tok = "GYM" -> "gym"
    [] OTHER -> tok
LowerText(t) == [i \in 1..Len(t) |-> ToLowerCase(t[i])]

\* text.includes(term) for a one-token term (the empty term is in every text)
Includes(t, term) == term = <<>> \/ \E i \in 1..Len(t) : <<t[i]>> = term

\* String(e.amount).includes(search) is false: the search terms used hold no digit
MatchesSearch(e, s) ==
  IF s = <<>> THEN TRUE
  ELSE \/ Includes(LowerText(<<e.category>>), LowerText(s))
       \/ (e.title # NoTitle /\ Includes(LowerText(e.title), LowerText(s)))

\* Array.prototype.sort((a, b) => date(b) - date(a)): stable, newest first
RECURSIVE InsertByDate(_, _)
InsertByDate(e, sorted) ==
  IF sorted = <<>> \/ Head(sorted).date < e.date
  THEN <<e>> \o sorted
  ELSE <<Head(sorted)>> \o InsertByDate(e, Tail(sorted))

RECURSIVE SortNewestFirst(_)
SortNewestFirst(es) ==
  IF es = <<>> THEN <<>>
  ELSE InsertByDate(es[Len(es)], SortNewestFirst(SubSeq(es, 1, Len(es) - 1)))

filtered(es, cat, month, s) ==
  SortNewestFirst(
    SelectSeq(SelectSeq(SelectSeq(es, LAMBDA e : cat = "All" \/ e.category = cat),
                        LAMBDA e : MonthOf(e.date) = month),
              LAMBDA e : MatchesSearch(e, s)))

Filtered == filtered(expenses, catFilter, monthFilter, search)

\* map[t.category] = (map[t.category] ?? 0) + t.amount, keeping the order in
\* which Object.entries lists the keys (first insertion)
AddToTotalsOverwriting(totals, t) ==
  IF \E i \in 1..Len(totals) : totals[i].name = t.category
  THEN [i \in 1..Len(totals) |->
          IF totals[i].name = t.category
          THEN [name |-> totals[i].name, value |-> t.amount]
          ELSE totals[i]]
  ELSE Append(totals, [name |-> t.category, value |-> t.amount])
AddToTotals(totals, t) ==
  IF \E i \in 1..Len(totals) : totals[i].name = t.category
  THEN [i \in 1..Len(totals) |->
          IF totals[i].name = t.category
          THEN [name |-> totals[i].name, value |-> totals[i].value + t.amount]
          ELSE totals[i]]
  ELSE Append(totals, [name |-> t.category, value |-> 0 + t.amount])

RECURSIVE TotalsFrom(_, _)
TotalsFrom(totals, ts) ==
  IF ts = <<>> THEN totals ELSE TotalsFrom(AddToTotals(totals, Head(ts)), Tail(ts))

totalsByCategory(f) == TotalsFrom(<<>>, f)
totalSpend(f) == SumAmounts(f)

\* --------------------------------------------------------- trend series
\* 0.8 + Math.random() * 0.4, in hundredths, for three outcomes of
\* Math.random(): 0, 0.5 and 0.975
JitterPercents == {80, 100, 119}

\* trendData: the first loop pushes the twelve days up to today, oldest
\* first; the second pushes one predicted entry per jitter, its avgSpend
\* taken over every entry pushed so far
trendData(f, jitters) ==
  LET RECURSIVE SumSpend(_)
      SumSpend(days) == IF days = <<>> THEN 0 ELSE Head(days).spend + SumSpend(Tail(days))
      ActualDays ==
        [k \in 1..12 |->
           [date |-> Today - 12 + k,
            spend |-> SumAmounts(SelectSeq(f, LAMBDA t : t.date = Today - 12 + k))]]
      RECURSIVE AddPredicted(_, _, _)
      AddPredicted(days, i, js) ==
        IF js = <<>> THEN days
        ELSE AddPredicted(
               Append(days, [date |-> Today + i,
                             spend |-> MathRound(Frac(SumSpend(days) * Head(js),
                                                      Len(days) * 100)),
                             predicted |-> TRUE]),
               i + 1, Tail(js))
  IN AddPredicted(ActualDays, 1, jitters)

\* totalsByCategory.find(t => t.name === category)?.value || 0
CategoryValue(totals, category) ==
  IF \E i \in 1..Len(totals) : totals[i].name = category
  THEN totals[CHOOSE i \in 1..Len(totals) :
                /\ totals[i].name = category
                /\ \A j \in 1..(i - 1) : totals[j].name # category].value
  ELSE 0

CountIn(f, category) == Len(SelectSeq(f, LAMBDA e : e.category = category))

\* expense.amount > (avgByCategory[expense.category] || 0) * 2, the average
\* being value / count: with count > 0 this is amount * count > value * 2
IsAboveTwiceAverage(e, f) ==
  e.amount * CountIn(f, e.category) > CategoryValue(totalsByCategory(f), e.category) * 2

anomalousExpenses(f) == SelectSeq(f, LAMBDA e : IsAboveTwiceAverage(e, f))

\* const isAnomaly = anomalousExpenses.some(a => a.id === expense.id)
isAnomaly(e, f) ==
  \E i \in 1..Len(anomalousExpenses(f)) : anomalousExpenses(f)[i].id = e.id

\* ------------------------------------------------ category suggestion
Keywords ==
  << [category |-> "Food",
      words |-> {"restaurant", "food", "lunch", "dinner", "cafe", "pizza", "burger"}],
     [category |-> "Transport",
      words |-> {"uber", "taxi", "bus", "train", "fuel", "petrol", "gas"}],
     [category |-> "Shopping",
      words |-> {"amazon", "flipkart", "mall", "store", "buy", "purchase"}],
     [category |-> "Entertainment",
      words |-> {"movie", "cinema", "game", "netflix", "spotify", "concert"}],
     [category |-> "Bills",
      words |-> {"electricity", "water", "rent", "internet", "phone", "utility"}],
     [category |-> "Health",
      words |-> {"doctor", "medicine", "pharmacy", "hospital", "gym", "fitness"}] >>

KeywordHit(k, title) ==
  \E w \in Keywords[k].words : Includes(LowerText(title), <<w>>)

\* the loop without its early return: the last matching category is kept
suggestCategoryFromTitleLastMatch(title, categoryQuick) ==
  IF \E k \in 1..Len(Keywords) : KeywordHit(k, title)
  THEN Keywords[CHOOSE k \in 1..Len(Keywords) :
                  /\ KeywordHit(k, title)
                  /\ \A j \in (k + 1)..Len(Keywords) : ~KeywordHit(j, title)].category
  ELSE categoryQuick

suggestCategoryFromTitle(title, categoryQuick) ==
  IF \E k \in 1..Len(Keywords) : KeywordHit(k, title)
  THEN Keywords[CHOOSE k \in 1..Len(Keywords) :
                  /\ KeywordHit(k, title)
                  /\ \A j \in 1..(k - 1) : ~KeywordHit(j, title)].category
  ELSE categoryQuick

\* ------------------------------------------------------------- inputs
\* the quick-add form: amountQuick is the text of a number input
NumberOf(text) == CASE text = "-5" -> 0 - 5 [] text = "5000" -> 5000 [] OTHER -> 0

\* the records GET /api/expenses returns have no category
ServerExpenses ==
  << [id |-> 1, title |-> <<"rent">>, amount |-> 900, date |-> Today - 2],
     [id |-> 2, title |-> <<"rent">>, amount |-> 900, date |-> Today - 2] >>

\* arr.map((e, i) => ({ id: e.id ?? i, amount: Number(e.amount ?? 0),
\*                      category: e.category ?? DEFAULT_CATEGORIES[i % 7], ... }))
Normalized(arr) ==
  [k \in 1..Len(arr) |->
     Expense(arr[k].id, arr[k].amount,
             DEFAULT_CATEGORIES[((k - 1) % Len(DEFAULT_CATEGORIES)) + 1],
             arr[k].date, arr[k].title)]

\* the values a closure of one render holds for calculateFinancialHealth
Snapshot(es, bs, gs) == [expenses |-> es, budgets |-> bs, goals |-> gs]

\* ------------------------------------------------------------ actions
\* the load effect once GET /api/expenses has settled; its finally block calls
\* the calculateFinancialHealth of the first render (expenses = [], the
\* initial budgets and goals)
Load(outcome) ==
  /\ dpc = "fetching"
  /\ dpc' = "loaded"
  /\ expenses' = IF outcome.ok THEN Normalized(outcome.data) ELSE seedExpenses
  /\ financialHealth' = calculateFinancialHealth(<<>>, InitialBudgets, financialGoals)
  /\ UNCHANGED <<loading, budgets, financialGoals, search, catFilter, monthFilter, posts,
                 timers, nextExpenseId, dashUsed, chatVars>>

\* setTimeout(() => setLoading(false), 300)
LoadingTimerFires ==
  /\ dpc = "loaded"
  /\ loading
  /\ loading' = FALSE
  /\ UNCHANGED <<dpc, expenses, budgets, financialGoals, financialHealth, search, catFilter,
                 monthFilter, posts, timers, nextExpenseId, dashUsed, chatVars>>

addQuickExpense(titleQuick, amountQuick, categoryQuick) ==
  /\ dashUsed < MaxDashOps
  /\ dashUsed' = dashUsed + 1
  /\ IF amountQuick = "" \/ categoryQuick = ""
     THEN UNCHANGED <<expenses, posts, nextExpenseId>>
     ELSE LET suggestedCategory ==
                IF titleQuick # NoTitle
                THEN suggestCategoryFromTitle(titleQuick, categoryQuick)
                ELSE categoryQuick
              newExpense == Expense(nextExpenseId, NumberOf(amountQuick), suggestedCategory,
                                    Today, titleQuick)
          IN /\ expenses' = <<newExpense>> \o expenses
             /\ posts' = Append(posts, Snapshot(expenses, budgets, financialGoals))
             /\ nextExpenseId' = nextExpenseId + 1
  /\ UNCHANGED <<dpc, loading, budgets, financialGoals, financialHealth, search, catFilter,
                 monthFilter, timers, chatVars>>

\* the Add Expense button: disabled={!amountQuick}
QuickAddButton(titleQuick, amountQuick, categoryQuick) ==
  /\ amountQuick # ""
  /\ addQuickExpense(titleQuick, amountQuick, categoryQuick)

\* POST /api/expenses settles (either way), then setTimeout(calculateFinancialHealth, 100)
PostSettles(k) ==
  /\ k \in 1..Len(posts)
  /\ timers' = Append(timers, posts[k])
  /\ posts' = SubSeq(posts, 1, k - 1) \o SubSeq(posts, k + 1, Len(posts))
  /\ UNCHANGED <<dpc, loading, expenses, budgets, financialGoals, financialHealth, search,
                 catFilter, monthFilter, nextExpenseId, dashUsed, chatVars>>

\* the delete button of a listed transaction: filtered.slice(0, 20), shown once
\* loading is false
deleteExpenseExpenses(id, prev) == SelectSeq(prev, LAMBDA x : x.id # id)

deleteExpense(id) ==
  /\ dashUsed < MaxDashOps
  /\ ~loading
  /\ \E i \in 1..Len(Filtered) : i <= 20 /\ Filtered[i].id = id
  /\ dashUsed' = dashUsed + 1
  /\ expenses' = deleteExpenseExpenses(id, expenses)
  /\ timers' = Append(timers, Snapshot(expenses, budgets, financialGoals))
  /\ UNCHANGED <<dpc, loading, budgets, financialGoals, financialHealth, search, catFilter,
                 monthFilter, posts, nextExpenseId, chatVars>>

\* a pending setTimeout(calculateFinancialHealth, 100) fires; the callback is
\* the one of the render in which the handler ran
TimerFires ==
  /\ timers # <<>>
  /\ financialHealth' = calculateFinancialHealth(Head(timers).expenses, Head(timers).budgets,
                                                 Head(timers).goals)
  /\ timers' = Tail(timers)
  /\ UNCHANGED <<dpc, loading, expenses, budgets, financialGoals, search, catFilter,
                 monthFilter, posts, nextExpenseId, dashUsed, chatVars>>

BudgetCategories(bs) == {bs[i].category : i \in 1..Len(bs)}

optimizeBudgetBudgetsAlsoLimit(category, categorySpend, prev) ==
  [i \in 1..Len(prev) |->
     IF prev[i].category = category
     THEN Spread(prev[i], [smartLimit |-> MathRound(Frac(categorySpend * 11, 10)),
                           limit |-> MathRound(Frac(categorySpend * 11, 10))])
     ELSE prev[i]]
optimizeBudgetBudgets(category, categorySpend, prev) ==
  [i \in 1..Len(prev) |->
     IF prev[i].category = category
     THEN Spread(prev[i], [smartLimit |-> MathRound(Frac(categorySpend * 11, 10))])
     ELSE prev[i]]

\* the Optimize button of a budget card
optimizeBudget(category) ==
  /\ dashUsed < MaxDashOps
  /\ category \in BudgetCategories(budgets)
  /\ dashUsed' = dashUsed + 1
  /\ budgets' = optimizeBudgetBudgets(category,
                                      CategoryValue(totalsByCategory(Filtered), category),
                                      budgets)
  /\ UNCHANGED <<dpc, loading, expenses, financialGoals, financialHealth, search, catFilter,
                 monthFilter, posts, timers, nextExpenseId, chatVars>>

\* the updater without its `exists` test
setBudgetLimitBudgetsAlwaysAppend(category, limit, prev) ==
  Append(prev, [category |-> category, limit |-> limit, priority |-> "medium"])

setBudgetLimitBudgets(category, limit, prev) ==
  IF category \in BudgetCategories(prev)
  THEN [i \in 1..Len(prev) |->
          IF prev[i].category = category THEN Spread(prev[i], [limit |-> limit]) ELSE prev[i]]
  ELSE Append(prev, [category |-> category, limit |-> limit, priority |-> "medium"])

setBudgetLimit(category, limit) ==
  /\ dashUsed < MaxDashOps
  /\ dashUsed' = dashUsed + 1
  /\ budgets' = setBudgetLimitBudgets(category, limit, budgets)
  /\ UNCHANGED <<dpc, loading, expenses, financialGoals, financialHealth, search, catFilter,
                 monthFilter, posts, timers, nextExpenseId, chatVars>>

\* the priority select of a budget card
setBudgetPriority(category, priority) ==
  /\ dashUsed < MaxDashOps
  /\ \E i \in 1..Len(budgets) : budgets[i].category = category /\ budgets[i].priority # priority
  /\ dashUsed' = dashUsed + 1
  /\ budgets' = [i \in 1..Len(budgets) |->
                   IF budgets[i].category = category
                   THEN Spread(budgets[i], [priority |-> priority])
                   ELSE budgets[i]]
  /\ UNCHANGED <<dpc, loading, expenses, financialGoals, financialHealth, search, catFilter,
                 monthFilter, posts, timers, nextExpenseId, chatVars>>

setSearch(s) ==
  /\ dashUsed < MaxDashOps
  /\ s # search
  /\ dashUsed' = dashUsed + 1
  /\ search' = s
  /\ UNCHANGED <<dpc, loading, expenses, budgets, financialGoals, financialHealth, catFilter,
                 monthFilter, posts, timers, nextExpenseId, chatVars>>

setCatFilter(c) ==
  /\ dashUsed < MaxDashOps
  /\ c # catFilter
  /\ dashUsed' = dashUsed + 1
  /\ catFilter' = c
  /\ UNCHANGED <<dpc, loading, expenses, budgets, financialGoals, financialHealth, search,
                 monthFilter, posts, timers, nextExpenseId, chatVars>>

setMonthFilter(m) ==
  /\ dashUsed < MaxDashOps
  /\ m # monthFilter
  /\ dashUsed' = dashUsed + 1
  /\ monthFilter' = m
  /\ UNCHANGED <<dpc, loading, expenses, budgets, financialGoals, financialHealth, search,
                 catFilter, posts, timers, nextExpenseId, chatVars>>

\* the dashboard page on its own: the chat page is not mounted
DashInit ==
  /\ DashConstructed
  /\ ChatInit
  /\ storage = NoItem
  /\ storageOk

DashNext ==
  \/ \E ok \in BOOLEAN, data \in {<<>>, ServerExpenses} :
       (~ok => data = <<>>) /\ Load([ok |-> ok, data |-> data])
  \/ LoadingTimerFires
  \/ \E t \in {NoTitle, <<"Pizza", " ", "night">>}, a \in {"", "-5", "5000"},
          c \in {"Food", "Bills"} : QuickAddButton(t, a, c)
  \/ \E k \in 1..Len(posts) : PostSettles(k)
  \/ \E i \in 1..Len(expenses) : deleteExpense(expenses[i].id)
  \/ TimerFires
  \/ \E c \in BudgetCategories(budgets) : optimizeBudget(c)
  \/ \E c \in {"Transport", "Bills"}, l \in {0, 4500} : setBudgetLimit(c, l)
  \/ \E c \in BudgetCategories(budgets), p \in {"low"} : setBudgetPriority(c, p)
  \/ \E s \in {<<>>, <<"food">>} : setSearch(s)
  \/ \E c \in {"All", "Food"} : setCatFilter(c)
  \/ \E m \in {MonthOf(Today) - 1, MonthOf(Today)} : setMonthFilter(m)

DashSpec == DashInit /\ [][DashNext]_vars

\* ------------------------------------------- the quick-add form alone
\* Titles that match no keyword, one category, or several; a keyword may sit
\* inside a longer word ("bus" in "Business") or be typed in capitals.
QuickTitles ==
  { <<"gift">>,
    <<"Pizza", " ", "night">>,
    <<"Uber", " to ", "cafe">>,
    <<"Bus", "iness", " ", "lunch">>,
    <<"Bus", "iness">>,
    <<"GYM", " ", "rent">> }

SuggestNext ==
  \/ \E t \in QuickTitles, a \in {"5000"}, c \in {"Food", "Shopping", "Other"} :
       QuickAddButton(t, a, c)
  \/ \E k \in 1..Len(posts) : PostSettles(k)
  \/ TimerFires

SuggestSpec == DashInit /\ [][SuggestNext]_vars

\* ------------------------------------------- the health score's goals
\* calculateFinancialHealth over goal lists the page itself never builds: no
\* goal, a first goal without target, with target 0, and with a target below
\* and above its current.
GoalWith(target, current) ==
  [id |-> 100, title |-> "Emergency Fund", target |-> target, current |-> current,
   category |-> "Savings", priority |-> 1]

GoalInputs ==
  { <<>>,
    << [id |-> 100, title |-> "Emergency Fund", current |-> 25000,
        category |-> "Savings", priority |-> 1] >> }
  \cup { <<GoalWith(t, c)>> : t \in {0, 20000, 100000}, c \in {0, 25000} }

GoalInit ==
  /\ \E gs \in GoalInputs : DashConstructedWith(gs)
  /\ ChatInit
  /\ storage = NoItem
  /\ storageOk

GoalNext ==
  \/ \E ok \in BOOLEAN, data \in {<<>>, ServerExpenses} :
       (~ok => data = <<>>) /\ Load([ok |-> ok, data |-> data])
  \/ LoadingTimerFires
  \/ \E a \in {"5000"}, c \in {"Food"} : QuickAddButton(NoTitle, a, c)
  \/ \E k \in 1..Len(posts) : PostSettles(k)
  \/ TimerFires

GoalSpec == GoalInit /\ [][GoalNext]_vars

\* ------------------------------------------------------ claim vocabulary
HasPlaceholder(i) ==
  /\ HasChat(chats, sends[i].chatId)
  /\ sends[i].asst \in MsgIds(FindChat(chats, sends[i].chatId).messages)

PlaceholderContent(i) ==
  LET ms == FindChat(chats, sends[i].chatId).messages
  IN (CHOOSE m \in {ms[j] : j \in 1..Len(ms)} : m.id = sends[i].asst).content

\* the chat list without the chat at position k
WithoutIndex(cs, k) == SubSeq(cs, 1, k - 1) \o SubSeq(cs, k + 1, Len(cs))
IndexOfChat(cs, id) == CHOOSE k \in 1..Len(cs) : cs[k].id = id

\* ================================================================ claims

\* C1: a send of non-blank text answered by a non-success status whose JSON
\* body carries an `error` field E appends exactly the user message and the
\* assistant placeholder to the chat, and leaves the placeholder with the
\* content "(warning) E".
C1_Appended ==
  Len(sends') = Len(sends) + 1 =>
    LET s == sends'[Len(sends')]
    IN HasChat(chats, s.chatId) =>
         /\ HasChat(chats', s.chatId)
         /\ FindChat(chats', s.chatId).messages
              = FindChat(chats, s.chatId).messages
                  \o << Msg(s.user, "user", s.text), Msg(s.asst, "assistant", THINKING) >>

C1_Final ==
  \A i \in 1..Len(sends) :
    ( /\ sends[i].stage = "done"
      /\ sends[i].outcome.kind = "http"
      /\ sends[i].outcome.body.json
      /\ Has(sends[i].outcome.body.obj, "error")
      /\ HasPlaceholder(i) )
    => PlaceholderContent(i) = WARN \o sends[i].outcome.body.obj.error

C1_HttpErrorField == [][C1_Appended]_vars /\ []C1_Final

C1_Witness ==
  \E i \in 1..Len(sends) :
    /\ sends[i].stage = "done"
    /\ sends[i].outcome.kind = "http"
    /\ sends[i].outcome.body.json
    /\ Has(sends[i].outcome.body.obj, "error")
    /\ Has(sends[i].outcome.body.obj, "message")
    /\ HasPlaceholder(i)
    /\ PlaceholderContent(i) = WARN \o <<"boom">>
    /\ LET ms == FindChat(chats, sends[i].chatId).messages
       IN Len(ms) = 5 /\ ms[4].id = sends[i].user /\ ms[5].id = sends[i].asst

ExtractedTexts(chunks) ==
  LET lines == SplitLines(Concat(chunks), <<>>)
  IN LineCandidates(SubSeq(lines, 1, Len(lines) - 1))

C3_Step ==
  \A id \in ChatIds(chats) :
    deleteChat(id, TRUE) =>
      LET rest == WithoutIndex(chats, IndexOfChat(chats, id))
      IN /\ chats' = rest
         /\ activeChatId' =
              IF activeChatId # id THEN activeChatId
              ELSE IF Len(chats) = 1 THEN Null
              ELSE rest[1].id

C3_DeleteChat == [][C3_Step]_vars

C3_Witness ==
  /\ pc = "ready"
  /\ chats = <<>>
  /\ activeChatId = Null
  /\ storage = JSONStringify(<<>>)

C5_WriteThrough ==
  (pc = "ready" /\ storageOk) => storage = JSONStringify(chats)

C5_Witness ==
  /\ pc = "ready" /\ storageOk
  /\ used = MaxOps
  /\ \E i \in 1..Len(sends) : sends[i].stage = "done" /\ HasPlaceholder(i)
  /\ storage = JSONStringify(chats)
  /\ loadChatsFromStorage(storage) = chats

\* ------------------------------------------- dashboard claim vocabulary
RECURSIVE SumValues(_)
SumValues(totals) ==
  IF totals = <<>> THEN 0 ELSE Head(totals).value + SumValues(Tail(totals))

SameCategory(e, f) == SelectSeq(f, LAMBDA x : x.category = e.category)

HealthInputsNonNegative(in) ==
  /\ \A i \in 1..Len(in.expenses) : in.expenses[i].amount >= 0
  /\ \A i \in 1..Len(in.budgets) : in.budgets[i].limit >= 0
  /\ \A i \in 1..Len(in.goals) : in.goals[i].target > 0 /\ in.goals[i].current >= 0

\* a step in which calculateFinancialHealth runs, and the values it reads
HealthCalculated ==
  \/ dpc = "fetching" /\ dpc' = "loaded"
  \/ timers # <<>> /\ timers' = Tail(timers)
HealthInputs ==
  IF dpc = "fetching" /\ dpc' = "loaded"
  THEN Snapshot(<<>>, InitialBudgets, financialGoals)
  ELSE Head(timers)

MeanOfReported(h) == MathRound(Frac(h.spending + h.saving + h.budgeting + h.planning, 4))

\* C6: the per-category totals of the filtered transactions add up to
\* totalSpend, and the aggregation lists exactly the categories that have a
\* filtered transaction, each once.
C6_Conservation ==
  LET totals == totalsByCategory(Filtered)
  IN /\ SumValues(totals) = totalSpend(Filtered)
     /\ \A i \in 1..Len(Filtered) :
          Cardinality({k \in 1..Len(totals) : totals[k].name = Filtered[i].category}) = 1
     /\ \A k \in 1..Len(totals) :
          \E i \in 1..Len(Filtered) : Filtered[i].category = totals[k].name

C6_Witness ==
  /\ dpc = "loaded"
  /\ Len(Filtered) < Len(expenses)
  /\ Len(totalsByCategory(Filtered)) >= 2
  /\ \E i \in 1..Len(Filtered) : CountIn(Filtered, Filtered[i].category) >= 2
  /\ totalSpend(Filtered) > 0

\* C7 (as stated): whenever calculateFinancialHealth runs on non-negative
\* amounts and limits, the overall it stores lies in 0..100 and equals the
\* rounded mean of the four sub-scores stored in the same record.
C7_OverallIsMeanOfReported ==
  [][ (HealthCalculated /\ HealthInputsNonNegative(HealthInputs)) =>
        /\ financialHealth'.overall \in 0..100
        /\ financialHealth'.overall = MeanOfReported(financialHealth') ]_vars

\* C7 (amended): whenever calculateFinancialHealth runs on non-negative
\* amounts and limits, the overall it stores lies in 0..100 and is the rounded
\* mean of the four sub-scores before they are rounded; the record holds each
\* sub-score rounded on its own, and the rounded mean of those differs from
\* overall by at most 1.
C7_OverallIsMeanOfUnrounded ==
  [][ (HealthCalculated /\ HealthInputsNonNegative(HealthInputs)) =>
        LET in == HealthInputs
            sum == FracAdd(FracAdd(spendingScore(in.expenses, in.budgets), savingScore(in.goals)),
                           FracAdd(budgetingScore(in.budgets), planningScore(in.goals)))
        IN /\ financialHealth'.overall \in 0..100
           /\ financialHealth'.overall = (2 * sum.num + 4 * sum.den) \div (8 * sum.den)
           /\ financialHealth'.spending = MathRound(spendingScore(in.expenses, in.budgets))
           /\ financialHealth'.saving = MathRound(savingScore(in.goals))
           /\ financialHealth'.budgeting = MathRound(budgetingScore(in.budgets))
           /\ financialHealth'.planning = MathRound(planningScore(in.goals))
           /\ Abs(financialHealth'.overall - MeanOfReported(financialHealth')) <= 1 ]_vars

\* a score computed from seed or server expenses only (no quick add has
\* happened) whose overall is not the rounded mean of its own sub-scores
C7_Witness ==
  /\ nextExpenseId = FirstGeneratedId
  /\ financialHealth # InitialHealth
  /\ financialHealth.overall \in 0..100
  /\ financialHealth.overall # MeanOfReported(financialHealth)

\* C8 (as stated): once the load has finished and no recalculation is
\* pending, the stored health score is the score formula applied to the
\* current expenses, budgets and goals.
C8_HealthIsCurrent ==
  (dpc = "loaded" /\ posts = <<>> /\ timers = <<>>) =>
     financialHealth = calculateFinancialHealth(expenses, budgets, financialGoals)

\* C9: optimizeBudget(category) sets that budget's smartLimit to
\* round(1.10 x the category's total in the filtered transactions), 0 when the
\* category has none, and changes nothing else in any budget.
C9_Step ==
  \A c \in BudgetCategories(budgets) :
    optimizeBudget(c) =>
      LET spend == SumAmounts(SelectSeq(Filtered, LAMBDA e : e.category = c))
      IN /\ Len(budgets') = Len(budgets)
         /\ \A i \in 1..Len(budgets) :
              IF budgets[i].category = c
              THEN /\ budgets'[i].smartLimit = (11 * spend + 5) \div 10
                   /\ (spend = 0 => budgets'[i].smartLimit = 0)
                   /\ DOMAIN budgets'[i] = DOMAIN budgets[i] \cup {"smartLimit"}
                   /\ \A k \in DOMAIN budgets[i] \ {"smartLimit"} :
                        budgets'[i][k] = budgets[i][k]
              ELSE budgets'[i] = budgets[i]
C9_OptimizeBudget == [][C9_Step]_vars

C9_Witness ==
  \E i, j \in 1..Len(budgets) :
    /\ "smartLimit" \in DOMAIN budgets[i]
    /\ "smartLimit" \in DOMAIN budgets[j]
    /\ budgets[i].smartLimit > 0
    /\ budgets[i].smartLimit # budgets[i].limit
    /\ budgets[j].smartLimit = 0
    /\ budgets[j].limit > 0

\* C10 (as stated): a filtered transaction is flagged exactly when its amount
\* is more than twice the mean amount of its category in the filtered set, and
\* no transaction is flagged when all transactions of its category in the
\* filtered set have the same amount.
C10_AnomalyIffAboveTwiceMean ==
  \A i \in 1..Len(Filtered) :
    LET e == Filtered[i]
        same == SameCategory(e, Filtered)
    IN /\ isAnomaly(e, Filtered) <=> e.amount * Len(same) > 2 * SumAmounts(same)
       /\ (\A j \in 1..Len(same) : same[j].amount = e.amount) => ~isAnomaly(e, Filtered)

\* C11: createNewChat(title?) puts exactly one new chat at the front, holding
\* exactly one system message whose content is the configured system prompt,
\* makes it the active chat, and leaves the existing chats unchanged and in
\* their order.
C11_Step ==
  \A t \in {"New Chat", "New Chat <now>", "Quick Chat"} :
    createNewChatEffect(t) =>
      /\ Len(chats') = Len(chats) + 1
      /\ SubSeq(chats', 2, Len(chats')) = chats
      /\ chats'[1].id \notin ChatIds(chats)
      /\ chats'[1].title = t
      /\ Len(chats'[1].messages) = 1
      /\ chats'[1].messages[1].role = "system"
      /\ chats'[1].messages[1].content = systemPrompt
      /\ activeChatId' = chats'[1].id
C11_CreateNewChat == [][C11_Step]_vars

C11_Witness ==
  /\ Len(chats) >= 3
  /\ chats[1].title = "New Chat"
  /\ activeChatId = chats[1].id
  /\ Len(chats[1].messages) = 1
  /\ chats[1].messages[1].content = <<"Answer in one line.">>
  /\ systemPrompt = <<"Answer in one line.">>

\* C12: setActiveChat(id) for an existing chat makes id the active chat and
\* moves that chat to the front, the other chats keeping their order and
\* contents.
C12_Step ==
  \A id \in ChatIds(chats) :
    setActiveChat(id) =>
      /\ activeChatId' = id
      /\ Len(chats') = Len(chats)
      /\ chats'[1] = chats[IndexOfChat(chats, id)]
      /\ SubSeq(chats', 2, Len(chats')) = WithoutIndex(chats, IndexOfChat(chats, id))
C12_SetActiveChat == [][C12_Step]_vars

C12_Witness ==
  /\ pc = "ready"
  /\ used = 0
  /\ Len(chats) >= 2
  /\ activeChatId = chats[1].id
  /\ chats[1].createdAt > chats[2].createdAt

\* C13 (as stated): in every reachable state every chat with at least one
\* message has a system message first.
C13_SystemMessageFirst ==
  \A i \in 1..Len(chats) :
    Len(chats[i].messages) > 0 => chats[i].messages[1].role = "system"

\* C14 (as stated): at most one send is in flight per chat: no two
\* activations of sendChatMessage that have not finished belong to the same
\* chat, because no Send click, Enter key or quick prompt starts a send while
\* `sending` is true.
C14_OneSendInFlightPerChat ==
  \A i, j \in 1..Len(sends) :
    ( /\ i # j
      /\ sends[i].stage # "done"
      /\ sends[j].stage # "done" )
    => sends[i].chatId # sends[j].chatId

\* C15: a sendChatMessage call whose text is empty or only whitespace, made
\* directly by the Enter key on the active chat or by the hand-off timer of a
\* chat created for it, issues no request, appends no message and leaves
\* `sending` as it was.
C15_Rejected ==
  /\ sends' = sends
  /\ chats' = chats
  /\ sending' = sending
  /\ storage' = storage

C15_Step ==
  /\ \A t \in ComposerTexts :
       (Trim(t) = <<>> /\ activeChatId # Null /\ handleComposerKeyDown(t)) => C15_Rejected
  /\ \A k \in 1..Len(handoffs) :
       (Trim(handoffs[k].text) = <<>> /\ HandOffFires(k)) => C15_Rejected

C15_BlankTextRejected == [][C15_Step]_vars

\* a chat created by Enter on whitespace with no active chat, after its
\* hand-off timer has fired: still only the system message, nothing sent
C15_Witness ==
  /\ storageOk
  /\ handoffs = <<>>
  /\ sends = <<>>
  /\ ~sending
  /\ Len(chats) = 1
  /\ chats[1].title = "New Chat <now>"
  /\ Len(chats[1].messages) = 1

\* C16: when the request or the reading of its response throws, the
\* activation of sendChatMessage still runs to its end, and the placeholder
\* is left with "(warning) Network error: " followed by the error's message;
\* the content written for a non-success HTTP status never starts with that
\* marker.
C16_NetworkErrorContent ==
  \A i \in 1..Len(sends) :
    /\ sends[i].outcome.kind = "rejected" =>
         /\ sends[i].stage = "done"
         /\ \E m \in {FETCH_FAILED, STREAM_FAILED, NOT_JSON} :
              /\ sends[i].final = WARN \o NETWORK_ERROR \o m
              /\ HasPlaceholder(i) => PlaceholderContent(i) = sends[i].final
    /\ sends[i].outcome.kind = "http" =>
         /\ sends[i].stage = "done"
         /\ SubSeq(sends[i].final, 1, 2) # WARN \o NETWORK_ERROR

\* a stream that failed after a chunk had been shown: the placeholder holds
\* the network error, `sending` is false again
C16_Witness ==
  \E i \in 1..Len(sends) :
    /\ sends[i].outcome.kind = "rejected"
    /\ Len(sends[i].chunks) > 0
    /\ HasPlaceholder(i)
    /\ PlaceholderContent(i) = WARN \o NETWORK_ERROR \o STREAM_FAILED
    /\ ~sending

\* C17 (as stated): once the caller has abandoned an assembly in flight (here:
\* the placeholder it fills, or its chat, has been deleted), the transport is
\* closed: no further chunk is read from the response.
C17_Step ==
  \A i \in 1..Len(sends) :
    (sends[i].stage = "stream" /\ ~HasPlaceholder(i))
      => sends'[i].chunks = sends[i].chunks

C17_AbandonedStreamIsClosed == [][C17_Step]_vars

\* C18: the category given to a quick-added expense with a title is that of
\* the first row of the keyword table (Food, Transport, Shopping,
\* Entertainment, Bills, Health) one of whose keywords occurs in the
\* lower-cased title; when no row matches it is the category selected in the
\* form.
C18_MatchingRows(title) ==
  { k \in 1..Len(Keywords) :
      \E w \in Keywords[k].words :
        \E i \in 1..Len(title) : ToLowerCase(title[i]) = w }

C18_Step ==
  \A t \in QuickTitles, c \in {"Food", "Shopping", "Other"} :
    QuickAddButton(t, "5000", c) =>
      /\ Len(expenses') = Len(expenses) + 1
      /\ expenses'[1].title = t
      /\ LET rows == C18_MatchingRows(t)
         IN IF rows = {}
            THEN expenses'[1].category = c
            ELSE \E k \in rows :
                   /\ \A j \in rows : k <= j
                   /\ expenses'[1].category = Keywords[k].category

C18_TableOrder ==
  << Keywords[1].category, Keywords[2].category, Keywords[3].category,
     Keywords[4].category, Keywords[5].category, Keywords[6].category >>
    = << "Food", "Transport", "Shopping", "Entertainment", "Bills", "Health" >>

C18_FirstMatchingCategory == [][C18_TableOrder /\ C18_Step]_vars

\* a title matching Transport and Food filed under Food, one matching Health
\* and Bills filed under Bills, and one matching nothing filed under the
\* category selected in the form
C18_Witness ==
  /\ \E i \in 1..Len(expenses) :
       expenses[i].title = <<"Uber", " to ", "cafe">> /\ expenses[i].category = "Food"
  /\ \E i \in 1..Len(expenses) :
       expenses[i].title = <<"GYM", " ", "rent">> /\ expenses[i].category = "Bills"
  /\ \E i \in 1..Len(expenses) :
       expenses[i].title = <<"gift">> /\ expenses[i].category = "Shopping"

\* C19: the budget list never holds two entries for one category;
\* setBudgetLimit on a category that has an entry changes that entry's limit
\* and nothing else (smartLimit and priority are kept, the other entries and
\* the order too), and on a category without an entry it appends exactly one
\* entry for it.
C19_Unique ==
  \A i, j \in 1..Len(budgets) : budgets[i].category = budgets[j].category => i = j

C19_Step ==
  \A c \in {"Transport", "Bills"}, l \in {0, 4500} :
    setBudgetLimit(c, l) =>
      IF c \in BudgetCategories(budgets)
      THEN /\ Len(budgets') = Len(budgets)
           /\ \A i \in 1..Len(budgets) :
                /\ DOMAIN budgets'[i] = DOMAIN budgets[i]
                /\ \A f \in DOMAIN budgets[i] \ {"limit"} : budgets'[i][f] = budgets[i][f]
                /\ budgets'[i].limit = IF budgets[i].category = c THEN l ELSE budgets[i].limit
      ELSE /\ Len(budgets') = Len(budgets) + 1
           /\ SubSeq(budgets', 1, Len(budgets)) = budgets
           /\ budgets'[Len(budgets')].category = c
           /\ budgets'[Len(budgets')].limit = l

C19_OneEntryPerCategory == []C19_Unique /\ [][C19_Step]_vars

\* Transport optimised and then given a new limit, Bills added by its limit
C19_Witness ==
  /\ Len(budgets) = 4
  /\ budgets[4].category = "Bills"
  /\ \E i \in 1..Len(budgets) :
       /\ budgets[i].category = "Transport"
       /\ Has(budgets[i], "smartLimit")
       /\ budgets[i].limit = 4500
       /\ budgets[i].priority = "medium"

\* C20 (as stated): the saving sub-score is 0 when there is no goal or the
\* first goal's target is 0 or undefined, whatever its current; otherwise it
\* is min(100, 100 * current / target). Once the health score has been
\* calculated, the reported saving score is that value rounded.
C20_Expected(gs) ==
  IF gs = <<>> THEN Frac(0, 1)
  ELSE IF ~Has(gs[1], "target") THEN Frac(0, 1)
  ELSE IF gs[1].target = 0 THEN Frac(0, 1)
  ELSE IF 100 * gs[1].current > 100 * gs[1].target
       THEN Frac(100, 1)
       ELSE Frac(100 * gs[1].current, gs[1].target)

C21_Step ==
  ( /\ pc = "boot"
    /\ pc' = "ready"
    /\ storage \in {NoItem, Unparsable, JsonText(FALSE, <<>>)} )
  => /\ chats' = createSeedChats(nextId)
     /\ Len(chats') = 2
     /\ \A i \in 1..Len(chats') :
          /\ chats'[i].messages[1].role = "system"
          /\ chats'[i].messages[1].content = DEFAULT_SYSTEM_PROMPT
     /\ storage' = IF storageOk THEN JSONStringify(chats') ELSE storage

C21_SeedFallback == [](pc = "boot" => ENABLED Mount) /\ [][C21_Step]_vars

C21_Witness ==
  /\ pc = "ready"
  /\ used = 0
  /\ sends = <<>>
  /\ chats = createSeedChats(1)
  /\ storage = JSONStringify(createSeedChats(1))
  /\ activeChatId = chats[1].id

\* C22 (as stated): the text shown for a non-success status is the JSON
\* body's `error` field, else its `message` field, when the body parses as
\* JSON; when the body is not JSON but readable text, it is that raw text.
C22_ErrorTextPreference ==
  \A i \in 1..Len(sends) :
    (sends[i].stage = "done" /\ sends[i].outcome.kind = "http") =>
      LET body == sends[i].outcome.body
      IN IF body.json
         THEN /\ Has(body.obj, "error") => sends[i].final = WARN \o body.obj.error
              /\ (~Has(body.obj, "error") /\ Has(body.obj, "message"))
                   => sends[i].final = WARN \o body.obj.message
         ELSE sends[i].final = WARN \o body.text

\* C23: whatever the completed lines of a chunk are (not JSON, or JSON
\* without a string reply-bearing field), the read loop goes on: the chunk's
\* raw text is forwarded to onChunk before anything extracted from it, the
\* earlier calls stand, and the stream stays open for the next chunk; the
\* stream completes once, after which the activation changes no more.
C23_Step ==
  \A i \in 1..Len(sends) :
    /\ Len(sends'[i].chunks) = Len(sends[i].chunks) + 1 =>
         LET c == sends'[i].chunks[Len(sends'[i].chunks)]
             n == Len(sends[i].calls)
             a == Len(sends[i].accumulated)
         IN /\ sends'[i].stage = "stream"
            /\ Len(sends'[i].calls) > n
            /\ SubSeq(sends'[i].calls, 1, n) = sends[i].calls
            /\ sends'[i].calls[n + 1] = c
            /\ Len(sends'[i].accumulated) >= a + Len(c)
            /\ SubSeq(sends'[i].accumulated, a + 1, a + Len(c)) = c
    /\ sends[i].stage = "done" => sends'[i] = sends[i]

C23_RawTextAlwaysForwarded ==
  /\ [][C23_Step]_vars
  /\ [](\A i \in 1..Len(sends) : sends[i].outcome.kind = "complete" => sends[i].stage = "done")

\* a line that is not JSON, then a record without a reply-bearing field:
\* all three chunks were forwarded and the stream completed
C23_Witness ==
  \E i \in 1..Len(sends) :
    /\ sends[i].outcome.kind = "complete"
    /\ sends[i].chunks = << <<"Hel">>, <<NL>>, <<"{", "done:", "true", "}", NL>> >>
    /\ sends[i].calls = sends[i].chunks
    /\ HasPlaceholder(i)
    /\ PlaceholderContent(i) = <<"Hel", NL, "{", "done:", "true", "}", NL>>

\* C24 (as stated): whatever the five random jitters are, the trend series
\* is 12 entries for actual days, none marked predicted, followed by exactly
\* 5 entries marked predicted, and every predicted value is round(m * j) for
\* some j in [0.8, 1.2], m being the mean of the 12 actual-day values: it
\* lies between round(0.8 m) and round(1.2 m).
C24_PredictedFromTrailingMean ==
  \A js \in [1..5 -> JitterPercents] :
    LET t == trendData(Filtered, js)
        total == t[1].spend + t[2].spend + t[3].spend + t[4].spend + t[5].spend + t[6].spend
                 + t[7].spend + t[8].spend + t[9].spend + t[10].spend + t[11].spend
                 + t[12].spend
        lo == MathRound(Frac(total * 80, 12 * 100))
        hi == MathRound(Frac(total * 120, 12 * 100))
    IN /\ Len(t) = 17
       /\ \A k \in 1..12 : ~Has(t[k], "predicted")
       /\ \A k \in 13..17 :
            /\ Has(t[k], "predicted") /\ t[k].predicted
            /\ IF total >= 0
               THEN lo <= t[k].spend /\ t[k].spend <= hi
               ELSE hi <= t[k].spend /\ t[k].spend <= lo

\* C25: while a streamed response is being read, the placeholder holds what
\* has been accumulated from the onChunk calls so far, in their order, and
\* from the first chunk patch on every content of the placeholder is the
\* previous one extended at its end.
C25_ContentIn(cs, s) ==
  LET ms == FindChat(cs, s.chatId).messages
  IN (CHOOSE m \in {ms[j] : j \in 1..Len(ms)} : m.id = s.asst).content

C25_HasPlaceholderIn(cs, s) ==
  HasChat(cs, s.chatId) /\ s.asst \in MsgIds(FindChat(cs, s.chatId).messages)

C25_IsPrefix(a, b) == Len(a) <= Len(b) /\ SubSeq(b, 1, Len(a)) = a

C25_Step ==
  \A i \in 1..Len(sends) :
    ( /\ sends[i].stage = "stream"
      /\ sends'[i].stage = "stream"
      /\ sends[i].chunks # <<>>
      /\ C25_HasPlaceholderIn(chats, sends[i])
      /\ C25_HasPlaceholderIn(chats', sends'[i]) )
    => /\ C25_IsPrefix(C25_ContentIn(chats, sends[i]), C25_ContentIn(chats', sends'[i]))
       /\ Len(sends'[i].chunks) > Len(sends[i].chunks)
            => Len(C25_ContentIn(chats', sends'[i])) > Len(C25_ContentIn(chats, sends[i]))

C25_Accumulated ==
  \A i \in 1..Len(sends) :
    ( /\ sends[i].stage = "stream"
      /\ sends[i].chunks # <<>>
      /\ C25_HasPlaceholderIn(chats, sends[i]) )
    => C25_ContentIn(chats, sends[i]) = Concat(sends[i].calls)

C25_PatchesInArrivalOrder == []C25_Accumulated /\ [][C25_Step]_vars

\* three chunks patched in, the second completing a record whose reply was
\* appended after it
C25_Witness ==
  \E i \in 1..Len(sends) :
    /\ sends[i].stage = "stream"
    /\ sends[i].chunks = << <<"Hel">>, <<"{", "reply:", "'hi'", "}", NL>>, <<"ld">> >>
    /\ C25_HasPlaceholderIn(chats, sends[i])
    /\ C25_ContentIn(chats, sends[i])
         = <<"Hel", "{", "reply:", "'hi'", "}", NL, "ld">>

\* C26: every activation of sendChatMessage that passes validation sets
\* `sending`, and when the transport always settles, `sending` is false again
\* later, whether the activation ends with a non-success status, a completed
\* stream, a JSON reply or an exception.
C26_Step == Len(sends') > Len(sends) => sending'

C26_SendingIsReset == [][C26_Step]_vars /\ (sending ~> ~sending)

\* two activations ended, one by a non-success status and one by a completed
\* stream, and the UI is no longer in the sending state
C26_Witness ==
  /\ Len(sends) = 2
  /\ ~sending
  /\ \E i, j \in 1..Len(sends) :
       /\ sends[i].stage = "done" /\ sends[i].outcome.kind = "http"
       /\ sends[j].stage = "done" /\ sends[j].outcome.kind = "complete"

\* C27 (as stated): when a send has ended with the stream reaching its end,
\* the placeholder holds the assembled response text and no longer the
\* initial "Assistant is thinking..." text, for every chunk sequence, the
\* empty one included.
C27_FinalizedAtEndOfStream ==
  \A i \in 1..Len(sends) :
    (sends[i].outcome.kind = "complete" /\ HasPlaceholder(i)) =>
      /\ PlaceholderContent(i) = Concat(sends[i].calls)
      /\ PlaceholderContent(i) # THINKING

\* C28 (as stated): once the page is up, activeChatId is null or the id of
\* the chat at index 0 of the chat list, and it is null only when the list
\* is empty.
C28_ActiveIsFirst ==
  pc = "ready" =>
    IF chats = <<>> THEN activeChatId = Null ELSE activeChatId = chats[1].id

\* C29: a step of the transport for an activation (a response, a chunk, the
\* end or the failure of its stream) changes nothing in the chat list but the
\* content of that activation's own placeholder: when the placeholder or its
\* chat has been deleted the chat list is left as it is, nothing is
\* re-created, and no other chat or message is touched.
C29_OnlyContentOf(s, before, after) ==
  /\ Len(after) = Len(before)
  /\ \A k \in 1..Len(before) :
       /\ DOMAIN after[k] = DOMAIN before[k]
       /\ \A f \in DOMAIN before[k] \ {"messages"} : after[k][f] = before[k][f]
       /\ Len(after[k].messages) = Len(before[k].messages)
       /\ \A j \in 1..Len(before[k].messages) :
            LET m == before[k].messages[j]
                n == after[k].messages[j]
            IN IF before[k].id = s.chatId /\ m.id = s.asst
               THEN /\ DOMAIN n = DOMAIN m
                    /\ \A f \in DOMAIN m \ {"content"} : n[f] = m[f]
               ELSE n = m

C29_Step ==
  \A i \in 1..Len(sends) :
    (Len(sends') = Len(sends) /\ sends'[i] # sends[i]) =>
      /\ C29_OnlyContentOf(sends[i], chats, chats')
      /\ ~HasPlaceholder(i) => chats' = chats

C29_PatchesAfterDeletion == [][C29_Step]_vars

\* a stream that failed after its placeholder had been removed from a chat
\* that still holds the user message: the error text was written nowhere
C29_Witness ==
  \E i \in 1..Len(sends) :
    /\ sends[i].stage = "done"
    /\ sends[i].outcome.kind = "rejected"
    /\ Len(sends[i].chunks) > 0
    /\ HasChat(chats, sends[i].chatId)
    /\ ~HasPlaceholder(i)
    /\ sends[i].user \in MsgIds(FindChat(chats, sends[i].chatId).messages)
    /\ \A k \in 1..Len(chats) : \A j \in 1..Len(chats[k].messages) :
         chats[k].messages[j].content # sends[i].final

\* C30 (as stated): when the timer of a send made with no active chat fires
\* with non-blank text, and the chat created for that send still exists, the
\* user message and the assistant placeholder are appended to that chat, and
\* every other chat is left as it was.
C30_Step ==
  \A k \in 1..Len(handoffs) :
    ( /\ Trim(handoffs[k].text) # <<>>
      /\ HasChat(chats, handoffs[k].chat)
      /\ HandOffFires(k) )
    => /\ Len(chats') = Len(chats)
       /\ \A c \in 1..Len(chats) :
            IF chats[c].id = handoffs[k].chat
            THEN /\ Len(chats'[c].messages) = Len(chats[c].messages) + 2
                 /\ SubSeq(chats'[c].messages, 1, Len(chats[c].messages)) = chats[c].messages
                 /\ chats'[c].messages[Len(chats[c].messages) + 1].role = "user"
                 /\ chats'[c].messages[Len(chats[c].messages) + 1].content
                      = Trim(handoffs[k].text)
                 /\ chats'[c].messages[Len(chats[c].messages) + 2].role = "assistant"
            ELSE chats'[c] = chats[c]

C30_HandOffToCreatedChat == [][C30_Step]_vars

====
